---- MODULE Spec2Model ----
(***************************************************************************)
(* The recipe catalogue API: token-authenticated viewsets over Tag,        *)
(* Ingredient and Recipe (recpie/views.py, recpie/serializers.py) on top   *)
(* of the models of core/models.py.  The database tables are the state;    *)
(* every HTTP handler is one action that reads the request, changes the    *)
(* tables and leaves the response in resp.                                 *)
(***************************************************************************)
EXTENDS Integers, Sequences, FiniteSets, TLC

\* ---------------------------------------------------------------- bounds
MaxTags == 2
MaxIngredients == 1
MaxRecipes == 2
MaxUpdateRecipes == 1
MaxUsers == 2

\* ------------------------------------------------------------ value sets
Users == {"u1", "u2"}
Anonymous == "anonymous"
\* The Authorization header: the token of a user, no header, an unknown key.
Credentials == Users \cup {"none", "bad"}

Titles == {"a", "b"}
Times == {5, 10}

\* Emails and passwords are strings of characters, so that their length,
\* their surrounding blanks and the case of their letters can be told.
Email(local, domain) == <<local, "@", domain>>
Password(c) == <<"p", "a", "s", "s", c>>

\* The primary keys of the User table, in the order they are handed out.
UserPk == <<"u1", "u2", "u3">>

\* The request handlers that run side by side (worker threads or processes).
Procs == {"p1", "p2"}

VARIABLES users, tokens, tags, ingredients, recipes, nextRecipeId, inflight, resp

vars == <<users, tokens, tags, ingredients, recipes, nextRecipeId, inflight, resp>>
db == <<users, tokens, tags, ingredients, recipes, nextRecipeId, inflight>>

\* A handler that serves no request.
Idle == [pc |-> "idle"]

\* ------------------------------------------------------------- helpers
ToSet(seq) == {seq[i] : i \in DOMAIN seq}

\* A result set of a query: row id -> number of rows carrying it.
Rows(ids, count(_)) == [id \in {i \in ids : count(i) > 0} |-> count(id)]

NoRows == Rows({}, LAMBDA i : 0)

\* QuerySet.distinct(): SELECT DISTINCT keeps one row of each.
Distinct(rows) == [id \in DOMAIN rows |-> 1]

Max(S) == CHOOSE x \in S : \A y \in S : y <= x
Min(S) == CHOOSE x \in S : \A y \in S : x <= y

\* str.lower() on the letters in use.
Lower(c) == CASE c = "A" -> "a" [] c = "X" -> "x" [] OTHER -> c

\* str.strip(): the blanks at both ends go.
Strip(s) ==
    LET kept == {i \in DOMAIN s : s[i] # " "}
    IN  IF kept = {} THEN <<>> ELSE SubSeq(s, Min(kept), Max(kept))

\* int(str_id) of _params_to_ints: Python strips blanks, raises ValueError on the rest.
IsIntStr(s) == s \in {"1", "2", "3", " 2", "0"}

IntOf(s) == CASE s = "1" -> 1 [] s = "2" -> 2 [] s = " 2" -> 2 [] s = "3" -> 3 [] OTHER -> 0

\* qs.split(',') is modelled by the list of its pieces; a missing or empty
\* parameter is the empty list (both are falsy in get_queryset).
_params_to_ints(qs) == [ok |-> \A i \in DOMAIN qs : IsIntStr(qs[i]), ids |-> {IntOf(qs[i]) : i \in DOMAIN qs}]

NoParams == [tag |-> <<>>, ingredient |-> <<>>]

\* ------------------------------------------------------ authentication
\* TokenAuthentication + IsAuthenticated: the key must be a stored token.
AuthenticateAllowAny(cred) == IF cred \in Users THEN cred ELSE "u1"

Authenticate(cred) == IF cred \in tokens THEN cred ELSE Anonymous

Response(op, cred, pk, status, rows, req) == [op |-> op, cred |-> cred, pk |-> pk, status |-> status, rows |-> rows, req |-> req]

NoReq == [kind |-> "none"]

\* ------------------------------------------------------------- queries
\* TagViewSet.get_queryset: the rows of Tag (joined to the recipe links when
\* assigned_only), filtered to the user, DISTINCT.
TagLinks(t) == Cardinality({r \in DOMAIN recipes : t \in recipes[r].tag})

TagJoinRows(user, assigned_only) == Rows(DOMAIN tags, LAMBDA t : IF tags[t].user # user THEN 0 ELSE IF assigned_only THEN TagLinks(t) ELSE 1)

TagQuerySetNoDistinct(user, assigned_only) == TagJoinRows(user, assigned_only)

TagQuerySet(user, assigned_only) == Distinct(TagJoinRows(user, assigned_only))

\* bool(int(query_params.get('assigned_only', 0)))
AssignedOnlyValues == {"absent", "0", "1", "2", "true"}

AssignedOnlyOk(p) == p = "absent" \/ IsIntStr(p)

AssignedOnly(p) == p # "absent" /\ IntOf(p) # 0

\* IngredientViewSet.get_queryset
IngredientQuerySet(user) == Rows(DOMAIN ingredients, LAMBDA i : IF ingredients[i].user = user THEN 1 ELSE 0)

\* RecipeViewSet.get_queryset: one filter by precedence; the tag and the
\* ingredient filters join the link table and scope nothing by owner.
RecipeQuerySetUnscoped(user, q) == [ok |-> TRUE, rows |-> Rows(DOMAIN recipes, LAMBDA r : 1)]

RecipeQuerySetIngredientFirst(user, q) ==
    IF q.ingredient # <<>>
    THEN LET p == _params_to_ints(q.ingredient)
         IN  [ok |-> p.ok, rows |-> Rows(DOMAIN recipes, LAMBDA r : Cardinality(recipes[r].ingredient \cap p.ids))]
    ELSE IF q.tag # <<>>
    THEN LET p == _params_to_ints(q.tag)
         IN  [ok |-> p.ok, rows |-> Rows(DOMAIN recipes, LAMBDA r : Cardinality(recipes[r].tag \cap p.ids))]
    ELSE [ok |-> TRUE, rows |-> Rows(DOMAIN recipes, LAMBDA r : IF recipes[r].user = user THEN 1 ELSE 0)]

RecipeQuerySet(user, q) ==
    IF q.tag # <<>>
    THEN LET p == _params_to_ints(q.tag)
         IN  [ok |-> p.ok, rows |-> Rows(DOMAIN recipes, LAMBDA r : Cardinality(recipes[r].tag \cap p.ids))]
    ELSE IF q.ingredient # <<>>
    THEN LET p == _params_to_ints(q.ingredient)
         IN  [ok |-> p.ok, rows |-> Rows(DOMAIN recipes, LAMBDA r : Cardinality(recipes[r].ingredient \cap p.ids))]
    ELSE [ok |-> TRUE, rows |-> Rows(DOMAIN recipes, LAMBDA r : IF recipes[r].user = user THEN 1 ELSE 0)]

\* GenericAPIView.get_object over get_queryset: queryset.get(pk=pk).
\* No row is Http404; a ValueError of the parameters or several rows
\* (MultipleObjectsReturned) is an unhandled error.
get_object(user, pk, q) ==
    LET qs == RecipeQuerySet(user, q)
    IN  IF ~qs.ok THEN "error"
        ELSE IF pk \notin DOMAIN qs.rows THEN "notfound"
        ELSE IF qs.rows[pk] > 1 THEN "error"
        ELSE "found"

\* ---------------------------------------------------------------- Init
Init ==
    /\ users = [u \in Users |-> [email |-> Email(IF u = "u1" THEN "a" ELSE "b", "x"), name |-> "n1", password |-> Password("1")]]
    /\ tokens = Users
    /\ tags = <<>>
    /\ ingredients = <<>>
    /\ recipes = <<>>
    /\ nextRecipeId = 1
    /\ inflight = [p \in Procs |-> Idle]
    /\ resp = Response("none", "none", 0, 0, NoRows, NoReq)

\* ------------------------------------------------- tags and ingredients
\* TagSerializer / IngredientSerializer: the one writable field is name, a
\* required CharField that may not be blank; 'user' is no field of the
\* serializer, so a 'user' of the payload is dropped.
NameData == [named : {{"name"}, {}}, name : {"a", ""}, user : Users \cup {"absent"}]

NameValidBlankAllowed(data) == "name" \in data.named

NameValid(data) == "name" \in data.named /\ data.name # ""

NameReq(data) == [kind |-> "name", named |-> data.named, name |-> data.name, user |-> data.user]

\* TagViewSet list
TagList(cred, p) ==
    LET user == Authenticate(cred)
    IN  /\ resp' = IF user = Anonymous THEN Response("tag-list", cred, 0, 401, NoRows, [kind |-> "assigned", p |-> p])
                   ELSE IF ~AssignedOnlyOk(p) THEN Response("tag-list", cred, 0, 500, NoRows, [kind |-> "assigned", p |-> p])
                   ELSE Response("tag-list", cred, 0, 200, TagQuerySet(user, AssignedOnly(p)), [kind |-> "assigned", p |-> p])
        /\ UNCHANGED db

\* serializer.save(user=self.request.user)
perform_create_payload_user(user, data) == IF data.user \in Users THEN data.user ELSE user

perform_create(user, data) == user

\* TagViewSet create
TagCreate(cred, data) ==
    LET user == Authenticate(cred)
        pk == Len(tags) + 1
    IN  /\ (user # Anonymous /\ NameValid(data)) => Len(tags) < MaxTags
        /\ resp' = IF user = Anonymous THEN Response("tag-create", cred, 0, 401, NoRows, NameReq(data))
                   ELSE IF ~NameValid(data) THEN Response("tag-create", cred, 0, 400, NoRows, NameReq(data))
                   ELSE Response("tag-create", cred, pk, 201, NoRows, NameReq(data))
        /\ tags' = IF user # Anonymous /\ NameValid(data)
                   THEN Append(tags, [user |-> perform_create(user, data), name |-> data.name])
                   ELSE tags
        /\ UNCHANGED <<users, tokens, ingredients, recipes, nextRecipeId, inflight>>

\* IngredientViewSet list
IngredientList(cred) ==
    LET user == Authenticate(cred)
    IN  /\ resp' = IF user = Anonymous THEN Response("ingredient-list", cred, 0, 401, NoRows, NoReq)
                   ELSE Response("ingredient-list", cred, 0, 200, IngredientQuerySet(user), NoReq)
        /\ UNCHANGED db

\* IngredientViewSet create
IngredientCreate(cred, data) ==
    LET user == Authenticate(cred)
        pk == Len(ingredients) + 1
    IN  /\ (user # Anonymous /\ NameValid(data)) => Len(ingredients) < MaxIngredients
        /\ resp' = IF user = Anonymous THEN Response("ingredient-create", cred, 0, 401, NoRows, NameReq(data))
                   ELSE IF ~NameValid(data) THEN Response("ingredient-create", cred, 0, 400, NoRows, NameReq(data))
                   ELSE Response("ingredient-create", cred, pk, 201, NoRows, NameReq(data))
        /\ ingredients' = IF user # Anonymous /\ NameValid(data)
                          THEN Append(ingredients, [user |-> perform_create(user, data), name |-> data.name])
                          ELSE ingredients
        /\ UNCHANGED <<users, tokens, tags, recipes, nextRecipeId, inflight>>

\* ------------------------------------------------------ RecipeSerializer
\* Meta.fields without the read-only id, in validation order.
RecipeFields == {"title", "ingredient", "tag", "time", "price", "link"}

\* The two PrimaryKeyRelatedField(many=True) declarations.
RelationFields == {"ingredient", "tag"}

\* link is blank=True on the model, so its serializer field is optional;
\* every other field is required unless the update is partial.
RequiredFields == RecipeFields \ {"link"}

\* ManyRelatedField.get_value: a form-encoded body of a non-partial request
\* reads an absent list as []; a JSON body reads it as absent.
Supplied(f, data, partial, ctype) == f \in data.named \/ (f \in RelationFields /\ ctype = "form" /\ ~partial)

\* The value the field validates: the payload's, or [] for the absent list.
Relation(f, data) == IF f \notin data.named THEN {} ELSE IF f = "tag" THEN ToSet(data.tag) ELSE ToSet(data.ingredient)

\* title: CharField, not blank.  time: PositiveIntegerField.  price:
\* DecimalField(max_digits=5, decimal_places=2).  tag / ingredient: every
\* id is a row of Tag.objects.all() / Ingredient.objects.all().
FieldValidNoLookup(f, data) ==
    CASE f = "title" -> data.title # ""
      [] f = "time" -> data.time >= 0
      [] f = "price" -> data.price > -1000 /\ data.price < 1000
      [] OTHER -> TRUE

FieldValid(f, data) ==
    CASE f = "title" -> data.title # ""
      [] f = "time" -> data.time >= 0
      [] f = "price" -> data.price > -1000 /\ data.price < 1000
      [] f = "tag" -> Relation("tag", data) \subseteq DOMAIN tags
      [] f = "ingredient" -> Relation("ingredient", data) \subseteq DOMAIN ingredients
      [] OTHER -> TRUE

\* Serializer.to_internal_value: the fields in error.
FieldErrors(data, partial, ctype) ==
    {f \in RecipeFields : IF Supplied(f, data, partial, ctype) THEN ~FieldValid(f, data) ELSE (f \in RequiredFields /\ ~partial)}

is_valid(data, partial, ctype) == FieldErrors(data, partial, ctype) = {}

\* validated_data: the fields that carry a value.
ValidatedAllFields(data, partial, ctype) == RecipeFields

Validated(data, partial, ctype) == {f \in RecipeFields : Supplied(f, data, partial, ctype)}

\* ModelSerializer.update: setattr for each validated scalar, save(), then
\* field.set(value) for each validated many-to-many field.
SetRelationMerge(old, new) == old \cup new

SetRelation(old, new) == new

SerializerUpdate(r, data, attrs) ==
    [user |-> r.user,
     title |-> IF "title" \in attrs THEN data.title ELSE r.title,
     time |-> IF "time" \in attrs THEN data.time ELSE r.time,
     price |-> IF "price" \in attrs THEN data.price ELSE r.price,
     link |-> IF "link" \in attrs THEN data.link ELSE r.link,
     tag |-> IF "tag" \in attrs THEN SetRelation(r.tag, Relation("tag", data)) ELSE r.tag,
     ingredient |-> IF "ingredient" \in attrs THEN SetRelation(r.ingredient, Relation("ingredient", data)) ELSE r.ingredient,
     image |-> r.image]

\* A new Recipe row: link defaults to '', image to NULL, no links.
NewRecipe(user) == [user |-> user, title |-> "", time |-> 0, price |-> 0, link |-> "", tag |-> {}, ingredient |-> {}, image |-> "null"]

\* ModelSerializer.create with the user of perform_create.
SerializerCreate(user, data, attrs) == SerializerUpdate(NewRecipe(perform_create(user, data)), data, attrs)

WriteReq(q, data, partial, ctype) == [kind |-> "write", q |-> q, partial |-> partial, ctype |-> ctype, named |-> data.named, tag |-> data.tag, ingredient |-> data.ingredient, user |-> data.user]

\* --------------------------------------------------------- RecipeViewSet
\* list
RecipeList(cred, q) ==
    LET user == Authenticate(cred)
        qs == RecipeQuerySet(user, q)
        req == [kind |-> "query", tag |-> q.tag, ingredient |-> q.ingredient]
    IN  /\ resp' = IF user = Anonymous THEN Response("recipe-list", cred, 0, 401, NoRows, req)
                   ELSE IF ~qs.ok THEN Response("recipe-list", cred, 0, 500, NoRows, req)
                   ELSE Response("recipe-list", cred, 0, 200, qs.rows, req)
        /\ UNCHANGED db

\* create (POST /recipes/)
RecipeCreate(cred, ctype, data) ==
    LET user == Authenticate(cred)
        ok == user # Anonymous /\ is_valid(data, FALSE, ctype)
        pk == nextRecipeId
    IN  /\ ok => nextRecipeId <= MaxRecipes
        /\ resp' = IF user = Anonymous THEN Response("recipe-create", cred, 0, 401, NoRows, WriteReq(NoParams, data, FALSE, ctype))
                   ELSE IF ~ok THEN Response("recipe-create", cred, 0, 400, NoRows, WriteReq(NoParams, data, FALSE, ctype))
                   ELSE Response("recipe-create", cred, pk, 201, NoRows, WriteReq(NoParams, data, FALSE, ctype))
        /\ recipes' = IF ok THEN recipes @@ (pk :> SerializerCreate(user, data, Validated(data, FALSE, ctype))) ELSE recipes
        /\ nextRecipeId' = IF ok THEN nextRecipeId + 1 ELSE nextRecipeId
        /\ UNCHANGED <<users, tokens, tags, ingredients, inflight>>

\* retrieve (GET /recipes/{pk}/)
RecipeRetrieve(cred, pk, q) ==
    LET user == Authenticate(cred)
        obj == get_object(user, pk, q)
    IN  /\ resp' = IF user = Anonymous THEN Response("recipe-retrieve", cred, pk, 401, NoRows, [kind |-> "object", q |-> q])
                   ELSE IF obj = "error" THEN Response("recipe-retrieve", cred, pk, 500, NoRows, [kind |-> "object", q |-> q])
                   ELSE IF obj = "notfound" THEN Response("recipe-retrieve", cred, pk, 404, NoRows, [kind |-> "object", q |-> q])
                   ELSE Response("recipe-retrieve", cred, pk, 200, Rows({pk}, LAMBDA i : 1), [kind |-> "object", q |-> q])
        /\ UNCHANGED db

\* update / partial_update (PUT, PATCH /recipes/{pk}/)
RecipeUpdate(cred, pk, q, partial, ctype, data) ==
    LET user == Authenticate(cred)
        obj == IF user = Anonymous THEN "unauthenticated" ELSE get_object(user, pk, q)
        ok == obj = "found" /\ is_valid(data, partial, ctype)
        op == IF partial THEN "recipe-patch" ELSE "recipe-put"
        req == WriteReq(q, data, partial, ctype)
    IN  /\ resp' = IF user = Anonymous THEN Response(op, cred, pk, 401, NoRows, req)
                   ELSE IF obj = "error" THEN Response(op, cred, pk, 500, NoRows, req)
                   ELSE IF obj = "notfound" THEN Response(op, cred, pk, 404, NoRows, req)
                   ELSE IF ~ok THEN Response(op, cred, pk, 400, NoRows, req)
                   ELSE Response(op, cred, pk, 200, NoRows, req)
        /\ recipes' = IF ok THEN [recipes EXCEPT ![pk] = SerializerUpdate(@, data, Validated(data, partial, ctype))] ELSE recipes
        /\ UNCHANGED <<users, tokens, tags, ingredients, nextRecipeId, inflight>>

\* destroy (DELETE /recipes/{pk}/)
RecipeDestroy(cred, pk, q) ==
    LET user == Authenticate(cred)
        obj == IF user = Anonymous THEN "unauthenticated" ELSE get_object(user, pk, q)
    IN  /\ resp' = IF user = Anonymous THEN Response("recipe-destroy", cred, pk, 401, NoRows, [kind |-> "object", q |-> q])
                   ELSE IF obj = "error" THEN Response("recipe-destroy", cred, pk, 500, NoRows, [kind |-> "object", q |-> q])
                   ELSE IF obj = "notfound" THEN Response("recipe-destroy", cred, pk, 404, NoRows, [kind |-> "object", q |-> q])
                   ELSE Response("recipe-destroy", cred, pk, 204, NoRows, [kind |-> "object", q |-> q])
        /\ recipes' = IF obj = "found" THEN [r \in DOMAIN recipes \ {pk} |-> recipes[r]] ELSE recipes
        /\ UNCHANGED <<users, tokens, tags, ingredients, nextRecipeId, inflight>>

\* upload_image (POST /recipes/{pk}/upload-image/): RecipeImageSerializer
\* accepts an image file and rejects anything else.
upload_image(cred, pk, q, file) ==
    LET user == Authenticate(cred)
        obj == IF user = Anonymous THEN "unauthenticated" ELSE get_object(user, pk, q)
        ok == obj = "found" /\ file = "image"
        req == [kind |-> "file", q |-> q, file |-> file]
    IN  /\ resp' = IF user = Anonymous THEN Response("recipe-upload-image", cred, pk, 401, NoRows, req)
                   ELSE IF obj = "error" THEN Response("recipe-upload-image", cred, pk, 500, NoRows, req)
                   ELSE IF obj = "notfound" THEN Response("recipe-upload-image", cred, pk, 404, NoRows, req)
                   ELSE IF ~ok THEN Response("recipe-upload-image", cred, pk, 400, NoRows, req)
                   ELSE Response("recipe-upload-image", cred, pk, 200, NoRows, req)
        /\ recipes' = IF ok THEN [recipes EXCEPT ![pk].image = "uploads/recipe"] ELSE recipes
        /\ UNCHANGED <<users, tokens, tags, ingredients, nextRecipeId, inflight>>

\* ----------------------------------------- update, statement by statement
\* UpdateModelMixin.update runs under autocommit, one statement after the
\* other: get_object and is_valid read, ModelSerializer.update writes the
\* row with instance.save() and then each many-to-many field with
\* field.set(value), in the order of Meta.fields (ingredient, tag).
NoResponse == Response("none", "none", 0, 0, NoRows, NoReq)

RelationOrder == <<"ingredient", "tag">>

\* The statement after the row (done = 0) or after the done-th relation.
NextStatement(attrs, done) ==
    LET left == {i \in DOMAIN RelationOrder : i > done /\ RelationOrder[i] \in attrs}
    IN  IF left = {} THEN "respond" ELSE RelationOrder[Min(left)]

\* get_object, is_valid: a refused request is answered at once, an accepted
\* one holds the instance it read and its validated data.
UpdateBegin(p, cred, pk, q, partial, ctype, data) ==
    LET user == Authenticate(cred)
        obj == IF user = Anonymous THEN "unauthenticated" ELSE get_object(user, pk, q)
        ok == obj = "found" /\ is_valid(data, partial, ctype)
        op == IF partial THEN "recipe-patch" ELSE "recipe-put"
        req == WriteReq(q, data, partial, ctype)
    IN  /\ inflight[p].pc = "idle"
        /\ resp' = IF user = Anonymous THEN Response(op, cred, pk, 401, NoRows, req)
                   ELSE IF obj = "error" THEN Response(op, cred, pk, 500, NoRows, req)
                   ELSE IF obj = "notfound" THEN Response(op, cred, pk, 404, NoRows, req)
                   ELSE IF ~ok THEN Response(op, cred, pk, 400, NoRows, req)
                   ELSE NoResponse
        /\ inflight' = IF ok THEN [inflight EXCEPT ![p] = [pc |-> "save", op |-> op, cred |-> cred, pk |-> pk, req |-> req, data |-> data,
                                                            attrs |-> Validated(data, partial, ctype), instance |-> recipes[pk]]]
                       ELSE inflight
        /\ UNCHANGED <<users, tokens, tags, ingredients, recipes, nextRecipeId>>

\* instance.save(): every column of the row is written from the instance
\* in memory, the validated ones with their new value.
UpdateSave(p) ==
    LET h == inflight[p]
        row == SerializerUpdate(h.instance, h.data, h.attrs \ RelationFields)
    IN  /\ h.pc = "save"
        /\ recipes' = [recipes EXCEPT ![h.pk] = [row EXCEPT !.tag = recipes[h.pk].tag, !.ingredient = recipes[h.pk].ingredient]]
        /\ inflight' = [inflight EXCEPT ![p].pc = NextStatement(h.attrs, 0)]
        /\ resp' = NoResponse
        /\ UNCHANGED <<users, tokens, tags, ingredients, nextRecipeId>>

\* field.set(value) of one validated many-to-many field.
UpdateSetRelation(p) ==
    LET h == inflight[p]
        k == CHOOSE i \in DOMAIN RelationOrder : RelationOrder[i] = h.pc
    IN  /\ h.pc \in RelationFields
        /\ recipes' = [recipes EXCEPT ![h.pk][h.pc] = SetRelation(@, Relation(h.pc, h.data))]
        /\ inflight' = [inflight EXCEPT ![p].pc = NextStatement(h.attrs, k)]
        /\ resp' = NoResponse
        /\ UNCHANGED <<users, tokens, tags, ingredients, nextRecipeId>>

\* return Response(serializer.data)
UpdateRespond(p) ==
    LET h == inflight[p]
    IN  /\ h.pc = "respond"
        /\ resp' = Response(h.op, h.cred, h.pk, 200, NoRows, h.req)
        /\ inflight' = [inflight EXCEPT ![p].pc = "done"]
        /\ UNCHANGED <<users, tokens, tags, ingredients, recipes, nextRecipeId>>

\* ------------------------------------------------------------- accounts
\* BaseUserManager.normalize_email: the part after the last '@' of the
\* stripped address is lowercased, the part before it is kept; an address
\* without '@' is returned as it came.
normalize_email(email) ==
    LET e == Strip(email)
        at == {i \in DOMAIN e : e[i] = "@"}
    IN  IF at = {} THEN email
        ELSE [i \in DOMAIN e |-> IF i > Max(at) THEN Lower(e[i]) ELSE e[i]]

\* UserManager.create_user: ValueError on an empty email; the row carries
\* the normalized email.  user.save() meets the unique index of email:
\* a stored row with that email is an IntegrityError.
create_user(email, password, name) ==
    LET row == [email |-> normalize_email(email), name |-> name, password |-> password]
    IN  IF email = <<>> THEN [ok |-> FALSE, row |-> row]
        ELSE [ok |-> \A u \in DOMAIN users : users[u].email # row.email, row |-> row]

\* get_user_model().objects.create_user(email, password), the call of the
\* tests and of the management shell: status 201 stands for the returned
\* user, 500 for the exception raised (ValueError, IntegrityError).
objects_create_user(email, password) ==
    LET made == create_user(email, password, "")
        pk == UserPk[Cardinality(DOMAIN users) + 1]
        req == [kind |-> "call", email |-> email, password |-> password]
    IN  /\ made.ok => Cardinality(DOMAIN users) < MaxUsers
        /\ resp' = [op |-> "create_user", cred |-> "none", pk |-> 0, status |-> IF made.ok THEN 201 ELSE 500, rows |-> NoRows, req |-> req]
        /\ users' = IF made.ok THEN [u \in DOMAIN users \cup {pk} |-> IF u = pk THEN made.row ELSE users[u]] ELSE users
        /\ UNCHANGED <<tokens, tags, ingredients, recipes, nextRecipeId, inflight>>

\* serializers.EmailField after the trim: one '@' with something on both
\* sides and no blank inside.
EmailWellFormed(e) ==
    /\ Cardinality({i \in DOMAIN e : e[i] = "@"}) = 1
    /\ e # <<>> /\ e[1] # "@" /\ e[Len(e)] # "@"
    /\ \A i \in DOMAIN e : e[i] # " "

\* UniqueValidator(queryset=User.objects.all()): no other row whose email
\* is exactly the submitted value.
UniqueEmail(e, instance) == \A u \in DOMAIN users \ {instance} : users[u].email # e

UserFields == {"email", "name", "password"}

\* UserSerializer: email (EmailField, unique), name (CharField), password
\* (min_length 5, trim_whitespace False); all required unless partial.
UserFieldValid(f, data, instance) ==
    CASE f = "email" -> EmailWellFormed(Strip(data.email)) /\ UniqueEmail(Strip(data.email), instance)
      [] f = "name" -> data.name # ""
      [] OTHER -> Len(data.password) >= 5

UserFieldErrors(data, partial, instance) ==
    {f \in UserFields : IF f \in data.named THEN ~UserFieldValid(f, data, instance) ELSE ~partial}

\* UserSerializer.update: the password is popped and set hashed, the other
\* fields are written by ModelSerializer.update as validated.
UserSerializerUpdate(u, data) ==
    [email |-> IF "email" \in data.named THEN Strip(data.email) ELSE u.email,
     name |-> IF "name" \in data.named THEN data.name ELSE u.name,
     password |-> IF "password" \in data.named /\ data.password # <<>> THEN data.password ELSE u.password]

\* A response of the account endpoints: token is the key handed out.
AccountResponse(op, cred, status, token, req) == [op |-> op, cred |-> cred, pk |-> 0, status |-> status, rows |-> NoRows, req |-> req, token |-> token]

UserReq(kind, data) == [kind |-> kind, named |-> data.named, email |-> data.email, name |-> data.name, password |-> data.password]

\* POST /user/create/ (CreateApiView over UserSerializer), open to all.
CreateUser(data) ==
    LET valid == UserFieldErrors(data, FALSE, "none") = {}
        made == create_user(Strip(data.email), data.password, data.name)
        ok == valid /\ made.ok
        pk == UserPk[Cardinality(DOMAIN users) + 1]
    IN  /\ ok => Cardinality(DOMAIN users) < MaxUsers
        /\ resp' = IF ~valid THEN AccountResponse("user-create", "none", 400, "none", UserReq("register", data))
                   ELSE IF ~made.ok THEN AccountResponse("user-create", "none", 500, "none", UserReq("register", data))
                   ELSE AccountResponse("user-create", "none", 201, "none", UserReq("register", data))
        /\ users' = IF ok THEN [u \in DOMAIN users \cup {pk} |-> IF u = pk THEN made.row ELSE users[u]] ELSE users
        /\ UNCHANGED <<tokens, tags, ingredients, recipes, nextRecipeId, inflight>>

\* django.contrib.auth.authenticate over ModelBackend: the row whose email
\* is exactly the username, if its password checks.
authenticate(username, password) == {u \in DOMAIN users : users[u].email = username /\ users[u].password = password}

\* AuthTokenSerializer: email and password are CharFields, required, not
\* blank, trimmed (trim_whitespace is left at its default on both).
AuthTokenTrim(s) == Strip(s)

AuthTokenFieldErrors(data) == {f \in {"email", "password"} : f \notin data.named \/ AuthTokenTrim(data[f]) = <<>>}

\* POST /user/token/ (CreateTokenView over AuthTokenSerializer): the
\* token of the authenticated user, made on first use.
CreateToken(data) ==
    LET valid == AuthTokenFieldErrors(data) = {}
        found == IF valid THEN authenticate(AuthTokenTrim(data.email), AuthTokenTrim(data.password)) ELSE {}
        user == CHOOSE u \in found : TRUE
    IN  /\ resp' = IF found = {} THEN AccountResponse("user-token", "none", 400, "none", UserReq("login", data))
                   ELSE AccountResponse("user-token", "none", 200, user, UserReq("login", data))
        /\ tokens' = IF found = {} THEN tokens ELSE tokens \cup {user}
        /\ UNCHANGED <<users, tags, ingredients, recipes, nextRecipeId, inflight>>

\* GET / PATCH /user/me/ on the authenticated user (ManageUserView over
\* UserSerializer); POST is not allowed.
ManageUser(cred, method, data) ==
    LET user == Authenticate(cred)
        req == [kind |-> "profile", method |-> method, named |-> data.named]
        valid == UserFieldErrors(data, TRUE, user) = {}
        ok == user # Anonymous /\ method = "PATCH" /\ valid
    IN  /\ resp' = IF user = Anonymous THEN Response("me", cred, 0, 401, NoRows, req)
                   ELSE IF method = "POST" THEN Response("me", cred, 0, 405, NoRows, req)
                   ELSE IF method = "PATCH" /\ ~valid THEN Response("me", cred, 0, 400, NoRows, req)
                   ELSE Response("me", cred, 0, 200, NoRows, req)
        /\ users' = IF ok THEN [users EXCEPT ![user] = UserSerializerUpdate(@, data)] ELSE users
        /\ UNCHANGED <<tokens, tags, ingredients, recipes, nextRecipeId, inflight>>

\* ------------------------------------------------------------ requests
\* The payloads and parameters the environment sends.  A field a payload
\* does not name carries a fixed filler that no handler reads.
NamePayloads == {d \in NameData : ("name" \notin d.named => d.name = "") /\ d.user \in {"absent", "u2"}}

ProfilePayloads == {[named |-> {"name", "password"}, name |-> "n2", password |-> Password("2")], [named |-> {}, name |-> "", password |-> <<>>]}

TagLists == {<<>>, <<1>>, <<2>>, <<1, 2>>, <<MaxTags + 1>>}

IngredientLists == {<<>>, <<1>>, <<MaxIngredients + 1>>}

RecipeData(named, title, time, tag, ingredient, user) ==
    [named |-> named, title |-> title, time |-> time, price |-> 5, link |-> "l", tag |-> tag, ingredient |-> ingredient, user |-> user]

Scalars == {"title", "time", "price"}

\* ------------------------------------------------------ the whole API
\* Every endpoint from the empty database, with and without a valid token,
\* over a few payloads and a single recipe.
SurfacePayloads ==
    {RecipeData(Scalars \cup RelationFields, "a", 5, t, <<>>, u) : t \in {<<>>, <<1>>}, u \in {"absent", "u2"}}
    \cup {RecipeData({"title"}, "b", 5, <<>>, <<>>, "absent")}

\* Who sends what: a user with a token sends every payload, a client
\* without a valid token sends one.
Senders(payloads, probe) == (Users \X payloads) \cup ((Credentials \ Users) \X {probe})

NameProbe == [named |-> {"name"}, name |-> "a", user |-> "absent"]

RecipeProbe == RecipeData(Scalars \cup RelationFields, "a", 5, <<>>, <<>>, "absent")

ProfileProbe == [named |-> {"name", "password"}, name |-> "n2", password |-> Password("2")]

Next ==
    \/ \E s \in Senders({"absent", "1"}, "absent") : TagList(s[1], s[2])
    \/ \E s \in Senders(NamePayloads, NameProbe) : TagCreate(s[1], s[2])
    \/ \E cred \in Credentials : IngredientList(cred)
    \/ \E s \in Senders(NamePayloads, NameProbe) : IngredientCreate(s[1], s[2])
    \/ \E cred \in Credentials : RecipeList(cred, NoParams)
    \/ \E s \in Senders(SurfacePayloads, RecipeProbe) : nextRecipeId <= MaxUpdateRecipes /\ RecipeCreate(s[1], "json", s[2])
    \/ \E cred \in Credentials, pk \in 1..MaxUpdateRecipes : RecipeRetrieve(cred, pk, NoParams)
    \/ \E s \in Senders(SurfacePayloads, RecipeProbe), pk \in 1..MaxUpdateRecipes, partial \in BOOLEAN : RecipeUpdate(s[1], pk, NoParams, partial, "json", s[2])
    \/ \E cred \in Credentials, pk \in 1..MaxUpdateRecipes : RecipeDestroy(cred, pk, NoParams)
    \/ \E s \in Senders({"image", "text"}, "image"), pk \in 1..MaxUpdateRecipes : upload_image(s[1], pk, NoParams, s[2])
    \/ \E s \in Senders(ProfilePayloads, ProfileProbe), method \in {"GET", "PATCH", "POST"} : ManageUser(s[1], method, s[2])

Spec == Init /\ [][Next]_vars

\* ------------------------------------------------ the update-centred run
\* The tests' fixture: tags and ingredients exist (sample_tag,
\* sample_ingredient), owned by either user, and recipes are then created
\* and updated with every shape of payload.
InitUpdate ==
    /\ users = [u \in Users |-> [email |-> Email(IF u = "u1" THEN "a" ELSE "b", "x"), name |-> "n1", password |-> Password("1")]]
    /\ tokens = Users
    /\ tags = [i \in 1..MaxTags |-> [user |-> IF i = 1 THEN "u1" ELSE "u2", name |-> "a"]]
    /\ ingredients = [i \in 1..MaxIngredients |-> [user |-> IF i = 1 THEN "u1" ELSE "u2", name |-> "a"]]
    /\ recipes = <<>>
    /\ nextRecipeId = 1
    /\ inflight = [p \in Procs |-> Idle]
    /\ resp = Response("none", "none", 0, 0, NoRows, NoReq)

UpdatePayloads ==
    {RecipeData({"title"}, t, 5, <<>>, <<>>, "absent") : t \in Titles \cup {""}}
    \cup {RecipeData({"time"}, "a", t, <<>>, <<>>, "absent") : t \in Times \cup {-1}}
    \cup {RecipeData({"tag"}, "a", 5, t, <<>>, "absent") : t \in TagLists \cup {<<1, 1>>}}
    \cup {RecipeData({"ingredient"}, "a", 5, <<>>, i, "absent") : i \in IngredientLists}
    \cup {RecipeData({"title", "tag"}, "b", 5, t, <<>>, "absent") : t \in {<<2>>, <<MaxTags + 1>>}}
    \cup {RecipeData(Scalars, "b", 10, <<>>, <<>>, u) : u \in {"absent", "u2"}}
    \cup {RecipeData(Scalars \cup {"tag"}, "b", 10, t, <<>>, "absent") : t \in {<<>>, <<1>>}}
    \cup {RecipeData(Scalars \cup {"ingredient"}, "b", 10, <<>>, i, "absent") : i \in {<<>>, <<1>>}}
    \cup {RecipeData(Scalars \cup RelationFields, "a", 5, g, i, "absent") : g \in TagLists, i \in IngredientLists}
    \cup {RecipeData(RecipeFields, "a", 10, <<1>>, <<1>>, "absent")}

\* Form-encoded bodies: the ones that leave a relation out.
FormPayloads == {d \in UpdatePayloads : d.named \in {{"title"}, Scalars, Scalars \cup {"tag"}, Scalars \cup {"ingredient"}}}

FilterQueries == {[tag |-> <<"1">>, ingredient |-> <<>>], [tag |-> <<"1", " 2">>, ingredient |-> <<>>], [tag |-> <<>>, ingredient |-> <<"1">>]}

Request(cred, q, partial, ctype, data) == [cred |-> cred, q |-> q, partial |-> partial, ctype |-> ctype, data |-> data]

\* u1 sends every payload; u2, the other user, sends a few, also with
\* filter parameters on the URL.
UpdateRequests ==
    {Request("u1", NoParams, p, "json", d) : p \in BOOLEAN, d \in UpdatePayloads}
    \cup {Request("u1", NoParams, p, "form", d) : p \in BOOLEAN, d \in FormPayloads}
    \cup {Request(c, q, p, "json", RecipeData(Scalars \cup RelationFields, "b", 5, <<>>, <<>>, "absent")) : c \in Users, q \in FilterQueries \cup {NoParams}, p \in BOOLEAN}

NextUpdate ==
    \/ \E rq \in UpdateRequests : nextRecipeId <= MaxUpdateRecipes /\ rq.cred = "u1" /\ rq.q = NoParams /\ ~rq.partial /\ RecipeCreate(rq.cred, rq.ctype, rq.data)
    \/ \E cred \in Users, pk \in 1..MaxUpdateRecipes, q \in FilterQueries \cup {NoParams} : RecipeRetrieve(cred, pk, q)
    \/ \E rq \in UpdateRequests, pk \in 1..MaxUpdateRecipes : RecipeUpdate(rq.cred, pk, rq.q, rq.partial, rq.ctype, rq.data)
    \/ \E cred \in Users, pk \in 1..MaxUpdateRecipes, q \in FilterQueries \cup {NoParams} : RecipeDestroy(cred, pk, q)
    \/ \E cred \in Users, pk \in 1..MaxUpdateRecipes, q \in FilterQueries \cup {NoParams}, file \in {"image", "text"} : upload_image(cred, pk, q, file)

SpecUpdate == InitUpdate /\ [][NextUpdate]_vars

\* -------------------------------------------------- the catalogue run
\* Both users fill the catalogue (tags, ingredients, recipes linked to
\* them) and list it with every parameter.
CatalogPayloads == {RecipeData(Scalars \cup RelationFields, "a", 5, t, i, "absent") : t \in {<<>>, <<1>>, <<2>>, <<1, 2>>}, i \in {<<>>, <<1>>}}

Queries == {NoParams, [tag |-> <<"1">>, ingredient |-> <<>>], [tag |-> <<"1", " 2">>, ingredient |-> <<"1">>],
            [tag |-> <<>>, ingredient |-> <<"1">>], [tag |-> <<"x">>, ingredient |-> <<>>]}

NextCatalog ==
    \/ \E cred \in Users, p \in AssignedOnlyValues : TagList(cred, p)
    \/ \E cred \in Users : TagCreate(cred, NameProbe)
    \/ \E cred \in Users : IngredientList(cred)
    \/ \E cred \in Users : IngredientCreate(cred, NameProbe)
    \/ \E cred \in Users, q \in Queries : RecipeList(cred, q)
    \/ \E cred \in Users, data \in CatalogPayloads : RecipeCreate(cred, "json", data)

SpecCatalog == Init /\ [][NextCatalog]_vars

\* ---------------------------------------------------- the accounts run
\* Registration, login and the profile from an empty User table.
InitAccounts ==
    /\ users = [u \in {} |-> u]
    /\ tokens = {}
    /\ tags = <<>>
    /\ ingredients = <<>>
    /\ recipes = <<>>
    /\ nextRecipeId = 1
    /\ inflight = [p \in Procs |-> Idle]
    /\ resp = Response("none", "none", 0, 0, NoRows, NoReq)

UserData(named, email, name, password) == [named |-> named, email |-> email, name |-> name, password |-> password]

ShortPassword == <<"p", "a", "s", "s">>

RegisterPayloads ==
    {UserData(UserFields, e, "n1", pw) : e \in {Email("a", "x"), Email("A", "x"), Email("a", "X")}, pw \in {Password("1"), Password("2")}}
    \cup {UserData(UserFields, e, "n1", Password("1")) : e \in {<<"a">>, <<>>, <<" ">> \o Email("a", "x")}}
    \cup {UserData(UserFields, Email("a", "x"), "n1", pw) : pw \in {ShortPassword, Password(" ")}}
    \cup {UserData(UserFields \ {f}, Email("a", "x"), "n1", Password("1")) : f \in UserFields}

LoginPayloads ==
    {UserData({"email", "password"}, e, "", pw) : e \in {Email("a", "x"), Email("A", "x"), Email("a", "X")},
                                                 pw \in {Password("1"), Password("2"), Password("1") \o <<" ">>, Password(" ")}}
    \cup {UserData({"email", "password"}, e, "", Password("1")) : e \in {Email("a", "x") \o <<" ">>, <<" ">>}}
    \cup {UserData({f}, Email("a", "x"), "", Password("1")) : f \in {"email", "password"}}

AccountPatches ==
    {UserData({"password"}, <<>>, "", pw) : pw \in {Password("2"), ShortPassword}}
    \cup {UserData({"email"}, e, "", <<>>) : e \in {Email("A", "x"), Email("a", "X"), <<"a">>}}
    \cup {UserData({"name"}, <<>>, "n2", <<>>)}

CallEmails == {Email("A", "X"), Email("b", "X"), <<>>}

NextAccounts ==
    \/ \E email \in CallEmails : objects_create_user(email, Password("1"))
    \/ \E data \in RegisterPayloads : CreateUser(data)
    \/ \E data \in LoginPayloads : CreateToken(data)
    \/ \E cred \in {UserPk[i] : i \in 1..MaxUsers} \cup {"none"}, method \in {"GET", "PATCH", "POST"}, data \in AccountPatches : ManageUser(cred, method, data)

SpecAccounts == InitAccounts /\ [][NextAccounts]_vars

\* -------------------------------------------------- the concurrent run
\* One stored recipe of u1; each handler serves one update of it while the
\* other handler and the readers go on.
InitConcurrent ==
    /\ users = [u \in Users |-> [email |-> Email(IF u = "u1" THEN "a" ELSE "b", "x"), name |-> "n1", password |-> Password("1")]]
    /\ tokens = Users
    /\ tags = [i \in 1..MaxTags |-> [user |-> "u1", name |-> "a"]]
    /\ ingredients = [i \in 1..MaxIngredients |-> [user |-> "u1", name |-> "a"]]
    /\ recipes = (1 :> [NewRecipe("u1") EXCEPT !.title = "a", !.time = 5, !.price = 5, !.tag = {1}])
    /\ nextRecipeId = 2
    /\ inflight = [p \in Procs |-> Idle]
    /\ resp = NoResponse

ConcurrentPayloads ==
    {RecipeData({"title"}, t, 5, <<>>, <<>>, "absent") : t \in {"b", ""}}
    \cup {RecipeData({"time"}, "a", 10, <<>>, <<>>, "absent")}
    \cup {RecipeData({"tag"}, "a", 5, <<2>>, <<>>, "absent")}
    \cup {RecipeData({"ingredient"}, "a", 5, <<>>, <<1>>, "absent")}
    \cup {RecipeData(Scalars \cup RelationFields, "b", 10, <<2>>, <<1>>, "absent")}

NextConcurrent ==
    \/ \E p \in Procs, cred \in Users \cup {"none"}, partial \in BOOLEAN, data \in ConcurrentPayloads : UpdateBegin(p, cred, 1, NoParams, partial, "json", data)
    \/ \E p \in Procs : UpdateSave(p)
    \/ \E p \in Procs : UpdateSetRelation(p)
    \/ \E p \in Procs : UpdateRespond(p)
    \/ \E cred \in Users : RecipeRetrieve(cred, 1, NoParams)

SpecConcurrent == InitConcurrent /\ [][NextConcurrent]_vars

\* ================================================================ claims
UpdateOps == {"recipe-put", "recipe-patch"}

SingleRecipeOps == {"recipe-retrieve", "recipe-patch", "recipe-put", "recipe-upload-image"}

\* The request came from an authenticated user and names a stored recipe.
OnRecipe(r) == r.cred \in tokens /\ r.pk \in DOMAIN recipes

\* The request came from the owner of a stored recipe, no filter parameter on the URL.
ByOwner(r) == OnRecipe(r) /\ recipes[r.pk].user = r.cred /\ r.req.q = NoParams

\* C1: a list of tags, of ingredients, or of recipes without tag/ingredient
\* parameter returns only rows owned by the requesting user.
C1_ListsScopedToOwner ==
    /\ (resp.op = "tag-list" /\ resp.status = 200) => \A id \in DOMAIN resp.rows : tags[id].user = resp.cred
    /\ (resp.op = "ingredient-list" /\ resp.status = 200) => \A id \in DOMAIN resp.rows : ingredients[id].user = resp.cred
    /\ (resp.op = "recipe-list" /\ resp.status = 200 /\ resp.req.tag = <<>> /\ resp.req.ingredient = <<>>) =>
           \A id \in DOMAIN resp.rows : recipes[id].user = resp.cred

C1_Witness ==
    /\ resp.op = "recipe-list" /\ resp.status = 200 /\ resp.cred = "u2"
    /\ resp.req.tag = <<>> /\ resp.req.ingredient = <<>>
    /\ DOMAIN resp.rows # {}
    /\ \E id \in DOMAIN recipes : recipes[id].user = "u1"
    /\ \E t \in DOMAIN tags : tags[t].user = "u1"

\* C2: every single-recipe operation (GET detail, PATCH, PUT, upload-image)
\* of a user who does not own the recipe is answered 404 and leaves the
\* recipe as it was, whatever parameters the URL carries.
C2_NonOwnerNotFound == [][(resp'.op \in SingleRecipeOps /\ OnRecipe(resp') /\ recipes[resp'.pk].user # resp'.cred) => (resp'.status = 404 /\ recipes' = recipes)]_vars

\* C3: the owner of a created tag, ingredient or recipe is the user who
\* sent the create request, whatever 'user' the payload names, and no
\* step changes the owner of a stored tag, ingredient or recipe.
C3_OwnerIsCreatorForever ==
    [][/\ (resp'.op = "tag-create" /\ resp'.status = 201) => tags'[resp'.pk].user = resp'.cred
       /\ (resp'.op = "ingredient-create" /\ resp'.status = 201) => ingredients'[resp'.pk].user = resp'.cred
       /\ (resp'.op = "recipe-create" /\ resp'.status = 201) => recipes'[resp'.pk].user = resp'.cred
       /\ \A id \in DOMAIN tags : id \in DOMAIN tags' /\ tags'[id].user = tags[id].user
       /\ \A id \in DOMAIN ingredients : id \in DOMAIN ingredients' /\ ingredients'[id].user = ingredients[id].user
       /\ \A id \in DOMAIN recipes \cap DOMAIN recipes' : recipes'[id].user = recipes[id].user]_vars

C3_Witness ==
    /\ resp.op = "recipe-put" /\ resp.status = 200 /\ resp.cred = "u1" /\ resp.req.user = "u2"
    /\ recipes[resp.pk].user = "u1" /\ recipes[resp.pk].image # "null"
    /\ \E t \in DOMAIN tags : tags[t].user = "u2"

\* C4: after an accepted PUT or PATCH that names tag (ingredient), the
\* recipe's tag set (ingredient set) is exactly the set of the ids sent,
\* whatever it held before.
C4_UpdateReplaces ==
    (resp.op \in UpdateOps /\ resp.status = 200) =>
        /\ "tag" \in resp.req.named => recipes[resp.pk].tag = ToSet(resp.req.tag)
        /\ "ingredient" \in resp.req.named => recipes[resp.pk].ingredient = ToSet(resp.req.ingredient)

C4_Witness ==
    /\ resp.op = "recipe-put" /\ resp.status = 200
    /\ resp.req.tag = <<2>> /\ resp.req.ingredient = <<>> /\ RelationFields \subseteq resp.req.named
    /\ recipes[resp.pk].tag = {2} /\ recipes[resp.pk].ingredient = {}

\* C5: a PATCH leaves every field its payload does not name as it was: the
\* ingredient set, the tag set and each scalar.
C5_PatchFrame ==
    [][(resp'.op = "recipe-patch" /\ resp'.pk \in DOMAIN recipes) =>
          /\ resp'.pk \in DOMAIN recipes'
          /\ \A f \in RecipeFields \ resp'.req.named : recipes'[resp'.pk][f] = recipes[resp'.pk][f]
          /\ recipes'[resp'.pk].user = recipes[resp'.pk].user /\ recipes'[resp'.pk].image = recipes[resp'.pk].image]_vars

C5_Witness ==
    /\ resp.op = "recipe-patch" /\ resp.status = 200 /\ resp.req.named = {"title"}
    /\ recipes[resp.pk].ingredient = {1} /\ recipes[resp.pk].tag = {1, 2} /\ recipes[resp.pk].time = 10

\* C6: a PUT by the owner that carries valid title, time and price and
\* omits tag is accepted and leaves the recipe without tags; likewise for
\* ingredient.
PutOmitting(f) ==
    /\ resp.op = "recipe-put" /\ ByOwner(resp)
    /\ Scalars \subseteq resp.req.named /\ f \notin resp.req.named
    /\ ToSet(resp.req.tag) \subseteq DOMAIN tags /\ ToSet(resp.req.ingredient) \subseteq DOMAIN ingredients

C6_PutClearsOmitted == \A f \in RelationFields : PutOmitting(f) => (resp.status = 200 /\ recipes[resp.pk][f] = {})

\* C7: a recipe create or update that names a tag or ingredient id of no
\* stored row stores nothing and changes no recipe, and is answered 400
\* when the request reaches validation (a create, or an update by the owner).
UnknownIds(req) == ~(ToSet(req.tag) \subseteq DOMAIN tags) \/ ~(ToSet(req.ingredient) \subseteq DOMAIN ingredients)

C7_UnknownIdRejected ==
    [][(resp'.op \in UpdateOps \cup {"recipe-create"} /\ UnknownIds(resp'.req)) =>
          /\ recipes' = recipes /\ nextRecipeId' = nextRecipeId
          /\ (resp'.cred \in tokens /\ (resp'.op = "recipe-create" \/ ByOwner(resp'))) => resp'.status = 400]_vars

C7_Witness ==
    /\ resp.op \in UpdateOps /\ resp.status = 400 /\ ByOwner(resp)
    /\ UnknownIds(resp.req) /\ recipes[resp.pk].tag # {} /\ recipes[resp.pk].ingredient # {}

\* C8: a tag or ingredient create of an authenticated user whose name is
\* empty is answered 400, and the stored tags and ingredients stay as
\* they were.
C8_EmptyNameRejected ==
    [][(resp'.op \in {"tag-create", "ingredient-create"} /\ resp'.cred \in tokens /\ resp'.req.name = "") =>
          (resp'.status = 400 /\ tags' = tags /\ ingredients' = ingredients)]_vars

C8_Witness ==
    /\ resp.op = "tag-create" /\ resp.status = 400 /\ resp.req.named = {"name"} /\ resp.req.name = ""
    /\ tags # <<>> /\ ingredients # <<>>

\* C9: a tag list with assigned_only true returns exactly the requesting
\* user's tags that some recipe references, each of them once.
C9_AssignedOnlyExactOnce ==
    (resp.op = "tag-list" /\ resp.status = 200 /\ resp.req.p \in {"1", "2"}) =>
        resp.rows = [t \in {x \in DOMAIN tags : tags[x].user = resp.cred /\ \E r \in DOMAIN recipes : x \in recipes[r].tag} |-> 1]

C9_Witness ==
    /\ resp.op = "tag-list" /\ resp.status = 200 /\ resp.req.p = "1"
    /\ \E t \in DOMAIN resp.rows : Cardinality({r \in DOMAIN recipes : t \in recipes[r].tag}) = 2
    /\ \E t \in DOMAIN tags : tags[t].user = resp.cred /\ t \notin DOMAIN resp.rows

\* C10: a request to a tag, ingredient, recipe or self-profile endpoint
\* without a valid token is answered 401 and changes no stored user, tag,
\* ingredient or recipe.
C10_NoTokenUnauthorized ==
    [][resp'.cred \notin tokens => (resp'.status = 401 /\ users' = users /\ tags' = tags /\ ingredients' = ingredients /\ recipes' = recipes)]_vars

C10_Witness ==
    /\ resp.op = "recipe-patch" /\ resp.status = 401 /\ resp.cred = "bad"
    /\ resp.pk \in DOMAIN recipes /\ tags # <<>>

\* C11: a registration whose email is already registered (the address it
\* would be stored under is the email of a stored user), whose password has
\* fewer than 5 characters, or whose email is missing is answered 400 and
\* leaves the stored users as they were.
AlreadyRegistered(req) == "email" \in req.named /\ \E u \in DOMAIN users : users[u].email = normalize_email(Strip(req.email))

C11_BadRegistrationRejected ==
    [][(resp'.op = "user-create" /\ (\/ AlreadyRegistered(resp'.req)
                                     \/ "email" \notin resp'.req.named
                                     \/ ("password" \in resp'.req.named /\ Len(resp'.req.password) < 5))) =>
          (resp'.status = 400 /\ users' = users)]_vars

\* C12: the email create_user stores is the all-lowercase form of the
\* non-empty email it was passed, local part and domain alike.
AllLower(s) == [i \in DOMAIN s |-> Lower(s[i])]

C12_StoredEmailLowercase ==
    (resp.op = "create_user" /\ resp.status = 201 /\ resp.req.email # <<>>) =>
        users[UserPk[Cardinality(DOMAIN users)]].email = AllLower(resp.req.email)

\* C13: a login is answered 200 with a token only when the email and the
\* password it sent are those of a stored user; with a wrong password, an
\* unknown email or a missing field it is answered 400 without a token.
CredentialsMatch(req) ==
    /\ {"email", "password"} \subseteq req.named
    /\ \E u \in DOMAIN users : users[u].email = req.email /\ users[u].password = req.password

C13_TokenOnlyForMatch ==
    (resp.op = "user-token" /\ ~CredentialsMatch(resp.req)) => (resp.status = 400 /\ resp.token = "none")

\* C14: a read of a recipe that runs while one update of it is under way
\* sees the recipe either as the update found it or with the whole update
\* applied, never with a part of it.
Updating(p) == inflight[p].pc \notin {"idle", "done"}

C14_UpdateAtomic ==
    \A p \in Procs :
        (/\ resp.op = "recipe-retrieve" /\ resp.status = 200
         /\ Updating(p) /\ inflight[p].pk = resp.pk
         /\ \A o \in Procs \ {p} : inflight[o].pc = "idle") =>
            recipes[resp.pk] \in {inflight[p].instance, SerializerUpdate(inflight[p].instance, inflight[p].data, inflight[p].attrs)}

\* C15: when the two handlers have both completed an update of the same
\* recipe, a field named by the payload of one of them only holds that
\* request's value, and a field named by both holds the value of one of them.
Sent(f, data) == IF f \in RelationFields THEN Relation(f, data) ELSE data[f]

Namers(f) == {p \in Procs : f \in inflight[p].req.named}

C15_LastWriterWinsPerField ==
    ((\A p \in Procs : inflight[p].pc = "done") /\ \A p, o \in Procs : inflight[p].pk = inflight[o].pk) =>
        \A f \in RecipeFields :
            Namers(f) # {} => \E p \in Namers(f) : recipes[inflight[p].pk][f] = Sent(f, inflight[p].data)

\* C16: an answered recipe list applies one filter by precedence: with a
\* tag parameter the recipes carrying one of its ids, whoever owns them and
\* whatever the ingredient parameter says; else with an ingredient
\* parameter the recipes carrying one of its ids, whoever owns them; else
\* the recipes of the requesting user.
Ids(qs) == _params_to_ints(qs).ids

C17_FilteredListNoDuplicates ==
    (resp.op = "recipe-list" /\ resp.status = 200 /\ (resp.req.tag # <<>> \/ resp.req.ingredient # <<>>)) =>
        \A r \in DOMAIN resp.rows : resp.rows[r] = 1

\* C18: every request of an authenticated user is answered with a success,
\* 400, 404 or 405, never with an internal error; a non-integer tag,
\* ingredient or assigned_only parameter is answered 400.
StructuredOutcomes == {200, 201, 204, 400, 404, 405}

C18_NoInternalError == resp.cred \in tokens => resp.status \in StructuredOutcomes

====
